---- MODULE Spec2Model ----
(***************************************************************************)
(* Model of the OnetConnect tile-matching engine: GridManager (grid,       *)
(* connectivity search, selection handling, removal, shuffle, restart) and *)
(* the part of PathVisualizer that decides when the removal callback runs. *)
(*                                                                         *)
(* A tile is identified by its coordinate <<row, col>>; the GridTile       *)
(* objects of one grid never move, so a coordinate names one object for as *)
(* long as the grid array is not rebuilt.  restartGame rebuilds the array: *)
(* callbacks created before it hold tiles of the old array and are marked  *)
(* stale.  Rendering (nodes, handlers, highlights) is left out: it decides *)
(* nothing.                                                                *)
(***************************************************************************)
EXTENDS Integers, Sequences, FiniteSets, TLC

\* ---------------------------------------------------------------- bounds
\* Played games: grids of at most MaxRows x MaxCols and MaxCells cells.
MaxRows == 2
MaxCols == 3
MaxCells == 4
MaxKinds == 2
MaxPending == 2
\* Connectivity queries: grids of at most ConnMaxRows x ConnMaxCols and
\* ConnMaxCells cells, every cell EMPTY or one of two tile types.
ConnMaxRows == 3
ConnMaxCols == 3
ConnMaxCells == 9
\* Calls of hasValidMoves: grids of at most MovesMaxRows x MovesMaxCols and
\* MovesMaxCells cells, every cell EMPTY or one of three tile types.
MovesMaxRows == 3
MovesMaxCols == 3
MovesMaxCells == 6
\* Games on one row without a path animator: at most PlayMaxCols columns.
PlayMaxCols == 6

\* ------------------------------------------------------------- constants
EMPTY == 0
PIKACHU == 1
CHARMANDER == 2
SQUIRTLE == 3
tileSize == 80
tileSpacing == 10

null == <<>>

VARIABLES
    rows,               \* GridManager.rows
    columns,            \* GridManager.columns
    pokemonTypesCount,  \* GridManager.pokemonTypesCount
    pathVisualizer,     \* "null" | "unloaded" (graphics = null) | "loaded"
    grid,               \* [cell -> TileType], the type field of grid[row][col]
    selectedTile,       \* null or the coordinate of the selected tile
    pending,            \* FIFO of removal callbacks held by running tweens
    completeCount,      \* calls of onGameCompleteCallback since the grid was built
    currentState,       \* GameManager.currentState
    gameCompletePanel,  \* GameManager.gameCompletePanel.active
    query               \* null or the last connectivity query and its answers

vars == <<rows, columns, pokemonTypesCount, pathVisualizer, grid,
          selectedTile, pending, completeCount, currentState,
          gameCompletePanel, query>>

config == <<rows, columns, pokemonTypesCount, pathVisualizer>>

gameManager == <<currentState, gameCompletePanel>>

\* ------------------------------------------------------------ grid model
Cells == (0 .. rows - 1) \X (0 .. columns - 1)

Min(a, b) == IF a < b THEN a ELSE b
Max(a, b) == IF a < b THEN b ELSE a

isValidGridPosition(row, col) ==
    row >= 0 /\ row < rows /\ col >= 0 /\ col < columns

getTileAt(row, col) ==
    IF isValidGridPosition(row, col) THEN <<row, col>> ELSE null

isTileEmpty(g, tile) == g[tile] = EMPTY

createEmptyGrid == [cell \in Cells |-> EMPTY]


\* Mutant: the number of pairs is rounded up.
calculatePairsNeeded_RoundedUp == (rows * columns + 1) \div 2

calculatePairsNeeded == (rows * columns) \div 2

\* Mutant: the pair index is not wrapped around the number of types.
getPokemonTypeForPair_NoCycle(pairIndex) == pairIndex + 1

getPokemonTypeForPair(pairIndex) == (pairIndex % pokemonTypesCount) + 1

createPairedTileTypes ==
    [j \in 1 .. 2 * calculatePairsNeeded |-> getPokemonTypeForPair((j - 1) \div 2)]

\* Mutant: the first element is overwritten and the second one kept.
swapArrayElements_Overwrite(array, index1, index2) ==
    [array EXCEPT ![index1 + 1] = array[index2 + 1]]

swapArrayElements(array, index1, index2) ==
    [array EXCEPT ![index1 + 1] = array[index2 + 1],
                  ![index2 + 1] = array[index1 + 1]]

\* The arrays shuffleArray can leave: S holds the arrays possible before the
\* iteration with loop index i, every value of getRandomIndex(i + 1) is taken.
RECURSIVE shuffleFrom(_, _)
shuffleFrom(S, i) ==
    IF i <= 0 THEN S
    ELSE shuffleFrom({swapArrayElements(a, i, j) : a \in S, j \in 0 .. i}, i - 1)

shuffleArray(array) == shuffleFrom({array}, Len(array) - 1)

hasMoreTiles(index, tileTypes) == index < Len(tileTypes)

assignTileTypesToGrid(g, tileTypes) ==
    [cell \in Cells |->
        LET index == cell[1] * columns + cell[2]
        IN  IF hasMoreTiles(index, tileTypes) THEN tileTypes[index + 1] ELSE g[cell]]

generateTiles(g) ==
    {assignTileTypesToGrid(g, t) : t \in shuffleArray(createPairedTileTypes)}


\* Mutant: only the first row is scanned.
isGridEmpty_FirstRowOnly(g) == \A cell \in Cells : cell[1] = 0 => isTileEmpty(g, cell)

isGridEmpty(g) == \A cell \in Cells : isTileEmpty(g, cell)

\* ---------------------------------------------------- connectivity search
\* Mutant: the types of the two tiles are not compared.
tilesHaveSameType_Always(g, tile1, tile2) == TRUE

tilesHaveSameType(g, tile1, tile2) == g[tile1] = g[tile2]

\* Mutant: no two tiles are taken for the same tile.
tilesAreIdentical_Never(tile1, tile2) == FALSE

tilesAreIdentical(tile1, tile2) == tile1[1] = tile2[1] /\ tile1[2] = tile2[2]


\* Mutant: the scan runs up to and including the far end column.
isHorizontalPathClear_EndIncluded(g, row, col1, col2) ==
    \A col \in (Min(col1, col2) + 1) .. Max(col1, col2) :
        isTileEmpty(g, <<row, col>>)

\* Mutant: the cells between the two columns are not looked at.
isHorizontalPathClear_NoScan(g, row, col1, col2) == TRUE

isHorizontalPathClear(g, row, col1, col2) ==
    \A col \in (Min(col1, col2) + 1) .. (Max(col1, col2) - 1) :
        isTileEmpty(g, <<row, col>>)

isVerticalPathClear(g, col, row1, row2) ==
    \A row \in (Min(row1, row2) + 1) .. (Max(row1, row2) - 1) :
        isTileEmpty(g, <<row, col>>)

isPathClear(g, row1, col1, row2, col2) ==
    IF row1 = row2 THEN isHorizontalPathClear(g, row1, col1, col2)
    ELSE IF col1 = col2 THEN isVerticalPathClear(g, col1, row1, row2)
    ELSE FALSE

tilesAreOnSameRow(tile1, tile2) == tile1[1] = tile2[1]

tilesAreOnSameColumn(tile1, tile2) == tile1[2] = tile2[2]

checkDirectLine(g, tile1, tile2) ==
    IF tilesAreOnSameRow(tile1, tile2)
    THEN isPathClear(g, tile1[1], tile1[2], tile2[1], tile2[2])
    ELSE IF tilesAreOnSameColumn(tile1, tile2)
    THEN isPathClear(g, tile1[1], tile1[2], tile2[1], tile2[2])
    ELSE FALSE


\* Mutant: the corner itself is not required to be EMPTY.
isCornerValidForPath_CornerUnchecked(g, corner, tile1, tile2) ==
    IF corner = null THEN FALSE
    ELSE /\ isPathClear(g, tile1[1], tile1[2], corner[1], corner[2])
         /\ isPathClear(g, corner[1], corner[2], tile2[1], tile2[2])

\* Mutant: the corner is required to hold a tile.
isCornerValidForPath_CornerOccupied(g, corner, tile1, tile2) ==
    IF corner = null \/ g[corner] = EMPTY THEN FALSE
    ELSE /\ isPathClear(g, tile1[1], tile1[2], corner[1], corner[2])
         /\ isPathClear(g, corner[1], corner[2], tile2[1], tile2[2])

isCornerValidForPath(g, corner, tile1, tile2) ==
    IF corner = null \/ g[corner] # EMPTY THEN FALSE
    ELSE /\ isPathClear(g, tile1[1], tile1[2], corner[1], corner[2])
         /\ isPathClear(g, corner[1], corner[2], tile2[1], tile2[2])

isFirstCornerValid(g, tile1, tile2) ==
    isCornerValidForPath(g, getTileAt(tile1[1], tile2[2]), tile1, tile2)


\* Mutant: the second test looks at the first corner again.
isSecondCornerValid_SameCorner(g, tile1, tile2) ==
    isCornerValidForPath(g, getTileAt(tile1[1], tile2[2]), tile1, tile2)

isSecondCornerValid(g, tile1, tile2) ==
    isCornerValidForPath(g, getTileAt(tile2[1], tile1[2]), tile1, tile2)

checkOneTurn(g, tile1, tile2) ==
    isFirstCornerValid(g, tile1, tile2) \/ isSecondCornerValid(g, tile1, tile2)

areMidpointsValidForPath(g, mid1, mid2, tile1, tile2) ==
    IF mid1 = null \/ mid2 = null THEN FALSE
    ELSE IF g[mid1] # EMPTY \/ g[mid2] # EMPTY THEN FALSE
    ELSE /\ isPathClear(g, tile1[1], tile1[2], mid1[1], mid1[2])
         /\ isPathClear(g, mid1[1], mid1[2], mid2[1], mid2[2])
         /\ isPathClear(g, mid2[1], mid2[2], tile2[1], tile2[2])

isColumnOccupiedByTiles(col, tile1, tile2) == col = tile1[2] \/ col = tile2[2]

isRowOccupiedByTiles(row, tile1, tile2) == row = tile1[1] \/ row = tile2[1]

canConnectThroughHorizontalMidpoint(g, tile1, tile2, midCol) ==
    areMidpointsValidForPath(g, getTileAt(tile1[1], midCol),
                             getTileAt(tile2[1], midCol), tile1, tile2)

canConnectThroughVerticalMidpoint(g, tile1, tile2, midRow) ==
    areMidpointsValidForPath(g, getTileAt(midRow, tile1[2]),
                             getTileAt(midRow, tile2[2]), tile1, tile2)

hasHorizontalTwoTurnPath(g, tile1, tile2) ==
    \E col \in 0 .. columns - 1 :
        /\ ~isColumnOccupiedByTiles(col, tile1, tile2)
        /\ canConnectThroughHorizontalMidpoint(g, tile1, tile2, col)

hasVerticalTwoTurnPath(g, tile1, tile2) ==
    \E row \in 0 .. rows - 1 :
        /\ ~isRowOccupiedByTiles(row, tile1, tile2)
        /\ canConnectThroughVerticalMidpoint(g, tile1, tile2, row)

checkTwoTurns(g, tile1, tile2) ==
    hasHorizontalTwoTurnPath(g, tile1, tile2) \/ hasVerticalTwoTurnPath(g, tile1, tile2)

hasValidPath(g, tile1, tile2) ==
    \/ checkDirectLine(g, tile1, tile2)
    \/ checkOneTurn(g, tile1, tile2)
    \/ checkTwoTurns(g, tile1, tile2)

canConnect(g, tile1, tile2) ==
    IF ~tilesHaveSameType(g, tile1, tile2) THEN FALSE
    ELSE IF tilesAreIdentical(tile1, tile2) THEN FALSE
    ELSE hasValidPath(g, tile1, tile2)

\* ------------------------------------------------------ path construction
\* Paths are sequences of world positions <<x, y>>, as the renderer gets them.
calculateGridStartPosition ==
    LET tileTotal == tileSize + tileSpacing
        width     == columns * tileTotal - tileSpacing
        height    == rows * tileTotal - tileSpacing
    IN  <<(0 - width) \div 2 + tileSize \div 2, height \div 2 - tileSize \div 2>>

convertGridToWorldPosition(row, col) ==
    LET startPosition == calculateGridStartPosition
    IN  <<startPosition[1] + col * (tileSize + tileSpacing),
          startPosition[2] - row * (tileSize + tileSpacing)>>

getDirectLinePath(g, tile1, tile2) ==
    IF ~checkDirectLine(g, tile1, tile2) THEN null
    ELSE <<convertGridToWorldPosition(tile1[1], tile1[2]),
           convertGridToWorldPosition(tile2[1], tile2[2])>>

tryFirstCornerPath(g, tile1, tile2) ==
    LET corner == getTileAt(tile1[1], tile2[2])
    IN  IF corner = null \/ ~isCornerValidForPath(g, corner, tile1, tile2) THEN null
        ELSE <<convertGridToWorldPosition(tile1[1], tile1[2]),
               convertGridToWorldPosition(corner[1], corner[2]),
               convertGridToWorldPosition(tile2[1], tile2[2])>>

trySecondCornerPath(g, tile1, tile2) ==
    LET corner == getTileAt(tile2[1], tile1[2])
    IN  IF corner = null \/ ~isCornerValidForPath(g, corner, tile1, tile2) THEN null
        ELSE <<convertGridToWorldPosition(tile1[1], tile1[2]),
               convertGridToWorldPosition(corner[1], corner[2]),
               convertGridToWorldPosition(tile2[1], tile2[2])>>


\* Mutant: only the first corner is tried.
getOneTurnPath_FirstCornerOnly(g, tile1, tile2) ==
    tryFirstCornerPath(g, tile1, tile2)

\* Mutant: the corner in tile2's row and tile1's column is tried first.
getOneTurnPath_SecondCornerFirst(g, tile1, tile2) ==
    LET path == trySecondCornerPath(g, tile1, tile2)
    IN  IF path # null THEN path ELSE tryFirstCornerPath(g, tile1, tile2)

getOneTurnPath(g, tile1, tile2) ==
    LET path == tryFirstCornerPath(g, tile1, tile2)
    IN  IF path # null THEN path ELSE trySecondCornerPath(g, tile1, tile2)

buildHorizontalTwoTurnPath(g, tile1, tile2, middleCol) ==
    LET mid1 == getTileAt(tile1[1], middleCol)
        mid2 == getTileAt(tile2[1], middleCol)
    IN  IF mid1 = null \/ mid2 = null
           \/ ~areMidpointsValidForPath(g, mid1, mid2, tile1, tile2) THEN null
        ELSE <<convertGridToWorldPosition(tile1[1], tile1[2]),
               convertGridToWorldPosition(mid1[1], mid1[2]),
               convertGridToWorldPosition(mid2[1], mid2[2]),
               convertGridToWorldPosition(tile2[1], tile2[2])>>

buildVerticalTwoTurnPath(g, tile1, tile2, middleRow) ==
    LET mid1 == getTileAt(middleRow, tile1[2])
        mid2 == getTileAt(middleRow, tile2[2])
    IN  IF mid1 = null \/ mid2 = null
           \/ ~areMidpointsValidForPath(g, mid1, mid2, tile1, tile2) THEN null
        ELSE <<convertGridToWorldPosition(tile1[1], tile1[2]),
               convertGridToWorldPosition(mid1[1], mid1[2]),
               convertGridToWorldPosition(mid2[1], mid2[2]),
               convertGridToWorldPosition(tile2[1], tile2[2])>>

\* The for loops return at the first index that yields a path.
tryHorizontalTwoTurnPath(g, tile1, tile2) ==
    LET found == {col \in 0 .. columns - 1 :
                    /\ ~isColumnOccupiedByTiles(col, tile1, tile2)
                    /\ buildHorizontalTwoTurnPath(g, tile1, tile2, col) # null}
    IN  IF found = {} THEN null
        ELSE buildHorizontalTwoTurnPath(g, tile1, tile2,
                 CHOOSE col \in found : \A other \in found : col <= other)

tryVerticalTwoTurnPath(g, tile1, tile2) ==
    LET found == {row \in 0 .. rows - 1 :
                    /\ ~isRowOccupiedByTiles(row, tile1, tile2)
                    /\ buildVerticalTwoTurnPath(g, tile1, tile2, row) # null}
    IN  IF found = {} THEN null
        ELSE buildVerticalTwoTurnPath(g, tile1, tile2,
                 CHOOSE row \in found : \A other \in found : row <= other)


\* Mutant: the row scan runs before the column scan.
getTwoTurnPath_RowsFirst(g, tile1, tile2) ==
    LET verticalPath == tryVerticalTwoTurnPath(g, tile1, tile2)
    IN  IF verticalPath # null THEN verticalPath
        ELSE tryHorizontalTwoTurnPath(g, tile1, tile2)

getTwoTurnPath(g, tile1, tile2) ==
    LET horizontalPath == tryHorizontalTwoTurnPath(g, tile1, tile2)
    IN  IF horizontalPath # null THEN horizontalPath
        ELSE tryVerticalTwoTurnPath(g, tile1, tile2)

getConnectionPath(g, tile1, tile2) ==
    IF ~tilesHaveSameType(g, tile1, tile2) THEN null
    ELSE IF tilesAreIdentical(tile1, tile2) THEN null
    ELSE LET direct == getDirectLinePath(g, tile1, tile2)
         IN  IF direct # null THEN direct
             ELSE LET oneTurn == getOneTurnPath(g, tile1, tile2)
                  IN  IF oneTurn # null THEN oneTurn
                      ELSE getTwoTurnPath(g, tile1, tile2)

\* ------------------------------------------------- removal and completion
removeTile(g, tile) == [g EXCEPT ![tile] = EMPTY]

\* Mutant: the callback removes no tile.
removeHeldTiles_NothingRemoved(g, held) == g

\* A callback created before restartGame holds tiles of the discarded array:
\* removing them leaves the current array untouched.
removeHeldTiles(g, held) ==
    IF held.stale THEN g
    ELSE removeTile(removeTile(g, held.tile1), held.tile2)

notifyGameComplete(count) == count + 1

\* Mutant: completion is notified without looking at the grid.
checkGameCompletion_Unconditional(g, count) == notifyGameComplete(count)

checkGameCompletion(g, count) ==
    IF isGridEmpty(g) THEN notifyGameComplete(count) ELSE count

\* ----------------------------------------------------------- GameManager
\* The GameManager has its gridManager and its gameCompletePanel assigned.
PLAYING == "PLAYING"
COMPLETED == "COMPLETED"
PAUSED == "PAUSED"

showGameCompletePanel == gameCompletePanel' = TRUE

hideGameCompletePanel == gameCompletePanel' = FALSE

\* The state start() leaves: PLAYING, the panel hidden.
setupInitialGameState == currentState = PLAYING /\ gameCompletePanel = FALSE

\* Mutant: the state is left as it is.
resetGameState_StateKept == UNCHANGED currentState /\ hideGameCompletePanel

resetGameState == currentState' = PLAYING /\ hideGameCompletePanel

transitionToCompleteState == currentState' = COMPLETED

displayGameCompletePanel == showGameCompletePanel

onGameComplete == transitionToCompleteState /\ displayGameCompletePanel

\* checkGameCompletion on the grid g; notifyGameComplete runs the callback
\* that connectToGridManager registered, which is onGameComplete.
runGameCompletionCheck(g) ==
    /\ completeCount' = checkGameCompletion(g, completeCount)
    /\ IF completeCount' # completeCount THEN onGameComplete
       ELSE UNCHANGED gameManager

\* ------------------------------------------------------ selection handler
\* Mutant: an EMPTY tile is accepted.
isTileValidForSelection_EmptyAccepted(g, tile) == tile # null

isTileValidForSelection(g, tile) == tile # null /\ g[tile] # EMPTY

isFirstTileSelection == selectedTile = null

\* Mutant: the path is never handed to the visualizer.
shouldAnimatePath_Never(path) == FALSE

shouldAnimatePath(path) == path # null /\ pathVisualizer # "null"

\* PathVisualizer.drawPath runs onComplete at once when it has no graphics or
\* the path is shorter than two points, and hands it to the tween otherwise.
drawPathCompletesAtOnce(path) == pathVisualizer = "unloaded" \/ Len(path) < 2

selectFirstTile(tile) ==
    /\ selectedTile' = tile
    /\ UNCHANGED <<config, grid, pending, completeCount, gameManager, query>>

\* Mutant: the selection is dropped instead of moved.
switchSelectedTile_SelectionCleared(newTile) ==
    /\ selectedTile' = null
    /\ UNCHANGED <<config, grid, pending, completeCount, gameManager, query>>

switchSelectedTile(newTile) ==
    /\ selectedTile' = newTile
    /\ UNCHANGED <<config, grid, pending, completeCount, gameManager, query>>

removeTilesImmediately(tile1, tile2) ==
    LET cleared == removeTile(removeTile(grid, tile1), tile2)
    IN  /\ grid' = cleared
        /\ runGameCompletionCheck(cleared)
        /\ UNCHANGED pending

animatePathAndRemoveTiles(path, tile1, tile2) ==
    IF drawPathCompletesAtOnce(path)
    THEN removeTilesImmediately(tile1, tile2)
    ELSE /\ Len(pending) < MaxPending
         /\ pending' = Append(pending, [tile1 |-> tile1, tile2 |-> tile2, stale |-> FALSE])
         /\ UNCHANGED <<grid, completeCount, gameManager>>

\* Mutant: the selection is left as it is.
clearSelection_SelectionKept == selectedTile' = selectedTile

clearSelection == selectedTile' = null

handleMatchingTiles(tile1, tile2) ==
    LET path == getConnectionPath(grid, tile1, tile2)
    IN  /\ IF shouldAnimatePath(path)
           THEN animatePathAndRemoveTiles(path, tile1, tile2)
           ELSE removeTilesImmediately(tile1, tile2)
        /\ clearSelection
        /\ UNCHANGED <<config, query>>

handleSecondTileSelection(tile) ==
    IF canConnect(grid, selectedTile, tile)
    THEN handleMatchingTiles(selectedTile, tile)
    ELSE switchSelectedTile(tile)

OnTileSelected(row, col) ==
    LET tile == getTileAt(row, col)
    IN  IF ~isTileValidForSelection(grid, tile) THEN UNCHANGED vars
        ELSE IF isFirstTileSelection THEN selectFirstTile(tile)
        ELSE handleSecondTileSelection(tile)

\* The tween of the oldest running animation ends and runs its callback.
AnimationComplete ==
    /\ pending # <<>>
    /\ LET cleared == removeHeldTiles(grid, Head(pending))
       IN  /\ grid' = cleared
           /\ runGameCompletionCheck(cleared)
    /\ pending' = Tail(pending)
    /\ UNCHANGED <<config, selectedTile, query>>

\* --------------------------------------------------------------- shuffle
CellAt(index) == <<index \div columns, index % columns>>

\* Mutant: the types of EMPTY cells are collected too.
collectRemainingTileTypes_EmptyKept(g) ==
    [i \in 1 .. rows * columns |-> g[CellAt(i - 1)]]

collectRemainingTileTypes(g) ==
    SelectSeq([i \in 1 .. rows * columns |-> g[CellAt(i - 1)]],
              LAMBDA type : type # EMPTY)

redistributeTileTypes(g, types) ==
    [cell \in Cells |->
        LET index == cell[1] * columns + cell[2]
        IN  IF hasMoreTiles(index, types) THEN types[index + 1] ELSE g[cell]]

ShuffleRemainingTiles ==
    /\ \E types \in shuffleArray(collectRemainingTileTypes(grid)) :
           grid' = redistributeTileTypes(createEmptyGrid, types)
    /\ UNCHANGED <<config, selectedTile, pending, completeCount, gameManager, query>>

\* ----------------------------------------------------------- valid moves
\* Mutant: the EMPTY tiles are collected as well.
collectActiveTiles_EmptyKept(g) == [i \in 1 .. rows * columns |-> CellAt(i - 1)]

collectActiveTiles(g) ==
    SelectSeq([i \in 1 .. rows * columns |-> CellAt(i - 1)],
              LAMBDA tile : ~isTileEmpty(g, tile))

\* Mutant: each tile is compared with the next collected tile only.
anyTilesCanConnect_NextTileOnly(g, tiles) ==
    \E i \in 1 .. Len(tiles) - 1 : canConnect(g, tiles[i], tiles[i + 1])

anyTilesCanConnect(g, tiles) ==
    \E i \in 1 .. Len(tiles) :
        \E j \in (i + 1) .. Len(tiles) : canConnect(g, tiles[i], tiles[j])

hasValidMoves(g) == anyTilesCanConnect(g, collectActiveTiles(g))

\* A call of the public hasValidMoves(); its result is recorded.
HasValidMoves ==
    /\ query' = [moves |-> hasValidMoves(grid)]
    /\ UNCHANGED <<config, grid, selectedTile, pending, completeCount, gameManager>>

\* --------------------------------------------------------------- restart
\* The tiles a callback holds after restartGame are objects of no grid: which
\* cells they once were decides nothing any more.
markStale(held) == [tile1 |-> null, tile2 |-> null, stale |-> TRUE]

\* Mutant: the selected tile is not cleared.
RestartGame_SelectionKept ==
    /\ hideGameCompletePanel
    /\ UNCHANGED selectedTile
    /\ completeCount' = 0
    /\ pending' = [i \in 1 .. Len(pending) |-> markStale(pending[i])]
    /\ grid' \in generateTiles(createEmptyGrid)
    /\ resetGameState
    /\ UNCHANGED <<config, query>>

\* The restart buttons: GameManager.restartGame hides the panel, has the
\* GridManager restart (selection cleared, grid rebuilt) and resets the state.
RestartGame ==
    /\ hideGameCompletePanel
    /\ selectedTile' = null
    /\ completeCount' = 0
    /\ pending' = [i \in 1 .. Len(pending) |-> markStale(pending[i])]
    /\ grid' \in generateTiles(createEmptyGrid)
    /\ resetGameState
    /\ UNCHANGED <<config, query>>

\* --------------------------------------------------------- specification
Init ==
    /\ rows \in 1 .. MaxRows
    /\ columns \in 1 .. MaxCols
    /\ rows * columns <= MaxCells
    /\ pokemonTypesCount \in 1 .. MaxKinds
    /\ pathVisualizer \in {"null", "unloaded", "loaded"}
    /\ grid \in generateTiles(createEmptyGrid)
    /\ selectedTile = null
    /\ pending = <<>>
    /\ completeCount = 0
    /\ setupInitialGameState
    /\ query = null

Next ==
    \/ \E row \in -1 .. rows, col \in -1 .. columns : OnTileSelected(row, col)
    \/ AnimationComplete
    \/ ShuffleRemainingTiles
    \/ RestartGame

Spec == Init /\ [][Next]_vars

\* ------------------------------------------ connectivity on any grid contents
\* canConnect and getConnectionPath are functions of the grid contents and two
\* tiles.  Here the contents are arbitrary and one query is made and recorded:
\* the answers for (tile1, tile2), and canConnect's answer for (tile2, tile1).
\* The search compares kinds for equality and with EMPTY only, so of two grids
\* that differ by exchanging the two kinds one is taken: the one whose first
\* tile in row-major order is a PIKACHU.
QueryConnection(tile1, tile2) ==
    /\ query = null
    /\ query' = [tile1 |-> tile1, tile2 |-> tile2,
                 can  |-> canConnect(grid, tile1, tile2),
                 back |-> canConnect(grid, tile2, tile1),
                 path |-> getConnectionPath(grid, tile1, tile2)]
    /\ UNCHANGED <<config, grid, selectedTile, pending, completeCount, gameManager>>

InitConn ==
    /\ rows \in 1 .. ConnMaxRows
    /\ columns \in 1 .. ConnMaxCols
    /\ rows * columns <= ConnMaxCells
    /\ pokemonTypesCount = MaxKinds
    /\ pathVisualizer = "null"
    /\ grid \in [Cells -> {EMPTY, PIKACHU, CHARMANDER}]
    /\ \A c \in Cells :
           grid[c] = CHARMANDER =>
               \E d \in Cells :
                   /\ d[1] * columns + d[2] < c[1] * columns + c[2]
                   /\ grid[d] = PIKACHU
    /\ selectedTile = null
    /\ pending = <<>>
    /\ completeCount = 0
    /\ setupInitialGameState
    /\ query = null

NextConn == \E tile1 \in Cells, tile2 \in Cells : QueryConnection(tile1, tile2)

SpecConn == InitConn /\ [][NextConn]_vars

\* ------------------------------------------------ one game, tweens complete
\* One game (restartGame is not called) in which every tween the
\* PathVisualizer starts runs to its end, so that no callback is held forever.
NextLive ==
    \/ \E row \in -1 .. rows, col \in -1 .. columns : OnTileSelected(row, col)
    \/ AnimationComplete
    \/ ShuffleRemainingTiles

SpecLive == Init /\ [][NextLive]_vars /\ WF_vars(AnimationComplete)

\* ------------------------------------------------- play on a one-row board
\* Games on a single row of up to PlayMaxCols cells with no pathVisualizer:
\* tiles are activated and matched pairs removed at once, nothing else is
\* called.
InitPlay ==
    /\ rows = 1
    /\ columns \in 1 .. PlayMaxCols
    /\ pokemonTypesCount \in 1 .. MaxKinds
    /\ pathVisualizer = "null"
    /\ grid \in generateTiles(createEmptyGrid)
    /\ selectedTile = null
    /\ pending = <<>>
    /\ completeCount = 0
    /\ setupInitialGameState
    /\ query = null

NextPlay == \E row \in -1 .. rows, col \in -1 .. columns : OnTileSelected(row, col)

SpecPlay == InitPlay /\ [][NextPlay]_vars

\* -------------------------------------------- valid moves on any grid contents
\* hasValidMoves is a function of the grid contents; it is called here on
\* arbitrary contents, with any tile or none selected.
InitMoves ==
    /\ rows \in 1 .. MovesMaxRows
    /\ columns \in 1 .. MovesMaxCols
    /\ rows * columns <= MovesMaxCells
    /\ pokemonTypesCount = SQUIRTLE
    /\ pathVisualizer = "null"
    /\ grid \in [Cells -> {EMPTY, PIKACHU, CHARMANDER, SQUIRTLE}]
    /\ selectedTile \in {null} \cup Cells
    /\ pending = <<>>
    /\ completeCount = 0
    /\ setupInitialGameState
    /\ query = null

NextMoves == HasValidMoves

SpecMoves == InitMoves /\ [][NextMoves]_vars

\* ======================================================================
\* Properties
\* ======================================================================
\* Geometry used to state the properties, independent of the search code.
Aligned(p, q) == p[1] = q[1] \/ p[2] = q[2]

\* The cells of the straight segment from p to q, both ends included.
SegmentCells(p, q) ==
    (Min(p[1], q[1]) .. Max(p[1], q[1])) \X (Min(p[2], q[2]) .. Max(p[2], q[2]))

CellsStrictlyBetween(p, q) == SegmentCells(p, q) \ {p, q}

\* Segment p-q is axis-aligned and holds nothing but Empty cells, a and b aside.
SegmentFree(g, p, q, a, b) ==
    /\ Aligned(p, q)
    /\ \A c \in SegmentCells(p, q) : c \in {a, b} \/ g[c] = EMPTY

\* A path a - p1 - p2 - b of at most three straight segments inside the grid
\* (p1 = a, p1 = p2 or p2 = b give the paths with fewer segments).
PathWithinTwoBends(g, a, b) ==
    \E p1 \in Cells :
        /\ SegmentFree(g, a, p1, a, b)
        /\ \E p2 \in Cells :
               /\ SegmentFree(g, p1, p2, a, b)
               /\ SegmentFree(g, p2, b, a, b)

\* The grid cell a world position stands for (what the renderer's caller
\* inverts), or null when the position is no cell centre of the grid.
CellOfWorldPosition(point) ==
    LET step == tileSize + tileSpacing
        x0   == (0 - (columns * step - tileSpacing)) \div 2 + tileSize \div 2
        y0   == (rows * step - tileSpacing) \div 2 - tileSize \div 2
        dx   == point[1] - x0
        dy   == y0 - point[2]
    IN  IF dx % step = 0 /\ dy % step = 0
           /\ dy \div step \in 0 .. rows - 1 /\ dx \div step \in 0 .. columns - 1
        THEN <<dy \div step, dx \div step>>
        ELSE null

PathCells(path) == [i \in 1 .. Len(path) |-> CellOfWorldPosition(path[i])]

Answered == query # null

\* C1: canConnect(A,B) is true exactly when A and B are distinct cells holding
\* the same kind and some path of at most three axis-aligned segments inside
\* the grid joins them through cells that, A and B aside, are all Empty.
C1_CanConnectIffPathWithinTwoBends ==
    Answered =>
        (query.can <=>
            /\ query.tile1 # query.tile2
            /\ grid[query.tile1] = grid[query.tile2]
            /\ PathWithinTwoBends(grid, query.tile1, query.tile2))

\* C1 witness: two tiles of one kind, neither in line nor joined by a corner,
\* were found connectable (through a two-bend detour).
C1_Witness ==
    /\ Answered /\ query.can
    /\ grid[query.tile1] # EMPTY
    /\ ~Aligned(query.tile1, query.tile2)
    /\ grid[<<query.tile1[1], query.tile2[2]>>] # EMPTY
    /\ grid[<<query.tile2[1], query.tile1[2]>>] # EMPTY

\* Every cell strictly between p and q, which share a row or a column, is Empty.
ClearBetween(g, p, q) ==
    /\ Aligned(p, q)
    /\ \A c \in CellsStrictlyBetween(p, q) : g[c] = EMPTY

\* Some corner of the rectangle spanned by a and b is Empty and joins them.
OneTurnExists(g, a, b) ==
    \E k \in {<<a[1], b[2]>>, <<b[1], a[2]>>} :
        g[k] = EMPTY /\ ClearBetween(g, a, k) /\ ClearBetween(g, k, b)

\* The columns (rows) other than those of a and b through which a two-bend
\* detour joins a and b.
ColumnDetours(g, a, b) ==
    {col \in 0 .. columns - 1 :
        /\ col # a[2] /\ col # b[2]
        /\ g[<<a[1], col>>] = EMPTY /\ g[<<b[1], col>>] = EMPTY
        /\ ClearBetween(g, a, <<a[1], col>>)
        /\ ClearBetween(g, <<a[1], col>>, <<b[1], col>>)
        /\ ClearBetween(g, <<b[1], col>>, b)}

RowDetours(g, a, b) ==
    {row \in 0 .. rows - 1 :
        /\ row # a[1] /\ row # b[1]
        /\ g[<<row, a[2]>>] = EMPTY /\ g[<<row, b[2]>>] = EMPTY
        /\ ClearBetween(g, a, <<row, a[2]>>)
        /\ ClearBetween(g, <<row, a[2]>>, <<row, b[2]>>)
        /\ ClearBetween(g, <<row, b[2]>>, b)}

Lowest(S) == CHOOSE x \in S : \A y \in S : x <= y

\* C7: getConnectionPath returns a path exactly when canConnect is true.
C7_PathIffCanConnect ==
    Answered => ((query.path # null) <=> query.can)

\* C7 witness: a connectable pair whose path turns at the second corner
\* (tile2's row, tile1's column), the first corner being occupied.
C7_Witness ==
    /\ Answered /\ query.can
    /\ grid[query.tile1] # EMPTY
    /\ Len(query.path) = 3
    /\ PathCells(query.path)[2] = <<query.tile2[1], query.tile1[2]>>

\* C8: canConnect(A,B) equals canConnect(B,A).
C8_CanConnectSymmetric ==
    Answered => (query.can = query.back)

\* C8 witness: a pair connectable in both orders although exactly one corner
\* (the one canConnect(tile1, tile2) tries first) is occupied.
C8_Witness ==
    /\ Answered /\ query.can /\ query.back
    /\ grid[query.tile1] # EMPTY
    /\ ~Aligned(query.tile1, query.tile2)
    /\ grid[<<query.tile1[1], query.tile2[2]>>] # EMPTY
    /\ grid[<<query.tile2[1], query.tile1[2]>>] = EMPTY

\* C9: a returned path has 2, 3 or 4 waypoints, starts at A and ends at B;
\* consecutive waypoints are distinct cells sharing a row or a column; every
\* interior waypoint and every cell strictly between two consecutive
\* waypoints is Empty.
C9_PathWellFormed ==
    (Answered /\ query.path # null) =>
        LET n     == Len(query.path)
            cells == PathCells(query.path)
        IN  /\ n \in {2, 3, 4}
            /\ \A i \in 1 .. n : cells[i] \in Cells
            /\ cells[1] = query.tile1
            /\ cells[n] = query.tile2
            /\ \A i \in 1 .. n - 1 :
                   /\ cells[i] # cells[i + 1]
                   /\ ClearBetween(grid, cells[i], cells[i + 1])
            /\ \A i \in 2 .. n - 1 : grid[cells[i]] = EMPTY

\* C9 witness: a four-waypoint path whose first leg is vertical (row scan).
C9_Witness ==
    /\ Answered /\ Len(query.path) = 4
    /\ grid[query.tile1] # EMPTY
    /\ PathCells(query.path)[2][2] = query.tile1[2]
    /\ PathCells(query.path)[2] # query.tile1

\* C10: the path returned is the first in the order direct line, one turn,
\* two turns: two waypoints whenever the direct line is clear, three only
\* when it is not, four only when neither a direct nor a one-turn path
\* exists; a two-turn path goes through the lowest column that works, and
\* through a row only when no column works.
C10_FirstPathInSearchOrder ==
    Answered =>
        LET a     == query.tile1
            b     == query.tile2
            n     == Len(query.path)
            cells == PathCells(query.path)
        IN  /\ (a # b /\ grid[a] = grid[b] /\ ClearBetween(grid, a, b)) => n = 2
            /\ n = 3 => ~ClearBetween(grid, a, b)
            /\ n = 4 => ~ClearBetween(grid, a, b) /\ ~OneTurnExists(grid, a, b)
            /\ (n = 4 /\ ColumnDetours(grid, a, b) # {}) =>
                   LET col == Lowest(ColumnDetours(grid, a, b))
                   IN  cells[2] = <<a[1], col>> /\ cells[3] = <<b[1], col>>
            /\ (n = 4 /\ ColumnDetours(grid, a, b) = {}) =>
                   \E row \in RowDetours(grid, a, b) :
                       cells[2] = <<row, a[2]>> /\ cells[3] = <<row, b[2]>>

\* C10 witness: a four-waypoint path returned where a column detour and a
\* row detour both exist.
C10_Witness ==
    /\ Answered /\ Len(query.path) = 4
    /\ grid[query.tile1] # EMPTY
    /\ ColumnDetours(grid, query.tile1, query.tile2) # {}
    /\ RowDetours(grid, query.tile1, query.tile2) # {}

\* C11: on a grid of one row, two distinct cells of the same kind connect
\* exactly when every cell strictly between them is Empty.
C11_SingleRowDirectOnly ==
    (Answered /\ rows = 1 /\ query.tile1 # query.tile2
        /\ grid[query.tile1] = grid[query.tile2]) =>
            (query.can <=>
                \A col \in 0 .. columns - 1 :
                    (/\ col > Min(query.tile1[2], query.tile2[2])
                     /\ col < Max(query.tile1[2], query.tile2[2]))
                        => grid[<<0, col>>] = EMPTY)

\* C11 witness: on a fully occupied row of one kind, two tiles with a tile
\* between them were found not connectable.
C11_Witness ==
    /\ Answered /\ rows = 1 /\ ~query.can
    /\ \A c \in Cells : grid[c] = PIKACHU
    /\ Max(query.tile1[2], query.tile2[2]) - Min(query.tile1[2], query.tile2[2]) >= 2

\* C12: for same-kind cells A and B in different rows and columns, an Empty
\* corner (A.row, B.col) with both legs clear makes canConnect true and the
\* path the three points A, (A.row, B.col), B, whatever (B.row, A.col) holds;
\* a path through (B.row, A.col) is returned only when the first corner fails.
FirstCornerJoins(g, a, b) ==
    /\ g[<<a[1], b[2]>>] = EMPTY
    /\ ClearBetween(g, a, <<a[1], b[2]>>)
    /\ ClearBetween(g, <<a[1], b[2]>>, b)

C12_FirstCornerPreferred ==
    (Answered /\ ~Aligned(query.tile1, query.tile2)
        /\ grid[query.tile1] = grid[query.tile2]) =>
            LET a == query.tile1
                b == query.tile2
            IN  /\ FirstCornerJoins(grid, a, b) =>
                       /\ query.can
                       /\ query.path # null
                       /\ PathCells(query.path) = <<a, <<a[1], b[2]>>, b>>
                /\ (/\ query.path # null
                    /\ Len(query.path) = 3
                    /\ PathCells(query.path)[2] = <<b[1], a[2]>>)
                       => ~FirstCornerJoins(grid, a, b)

\* C12 witness: the path goes through the first corner while the other corner
\* holds a tile of a different kind, two rows and two columns away.
C12_Witness ==
    /\ Answered /\ query.can
    /\ grid[query.tile1] # EMPTY
    /\ query.tile1[1] + 2 = query.tile2[1]
    /\ query.tile1[2] + 2 = query.tile2[2]
    /\ grid[<<query.tile2[1], query.tile1[2]>>] \notin {EMPTY, grid[query.tile1]}
    /\ Len(query.path) = 3
    /\ PathCells(query.path)[2] = <<query.tile1[1], query.tile2[2]>>

\* ---------------------------------------------------------- played games
NonEmptyCells(g) == {c \in Cells : g[c] # EMPTY}

KindsPresent(g) == {g[c] : c \in NonEmptyCells(g)}

CellsOfKind(g, kind) == {c \in Cells : g[c] = kind}

AllCellsEmpty(g) == NonEmptyCells(g) = {}

EveryKindEven(g) == \A kind \in KindsPresent(g) : Cardinality(CellsOfKind(g, kind)) % 2 = 0

\* The activation of (row, col) matches the selected tile and clears the pair
\* before the handler returns (no animator, or one that completes at once).
RemovesAtOnce(row, col) ==
    /\ isTileValidForSelection(grid, getTileAt(row, col))
    /\ selectedTile # null
    /\ canConnect(grid, selectedTile, <<row, col>>)
    /\ LET path == getConnectionPath(grid, selectedTile, <<row, col>>)
       IN  ~shouldAnimatePath(path) \/ drawPathCompletesAtOnce(path)

\* A step that performs a removal on the current grid: immediately, or in an
\* animator callback created since the grid was built.
RemovalStep ==
    \/ pending # <<>> /\ ~Head(pending).stale /\ AnimationComplete
    \/ \E row \in 0 .. rows - 1, col \in 0 .. columns - 1 :
           RemovesAtOnce(row, col) /\ OnTileSelected(row, col)

\* The cells a step turns from non-Empty to Empty.
ClearedCells == {c \in Cells : grid[c] # EMPTY /\ grid'[c] = EMPTY}

\* C2: between one restart and the next the game-complete event is emitted
\* at most once.
C2_CompleteAtMostOnce == completeCount <= 1

\* C3: the game-complete event is emitted only into a state whose cells are
\* all Empty, and a removal (immediate or by an animator callback, whichever
\* grid its tiles belong to) that leaves every cell Empty emits it.
C3_CompleteIffRemovalEmptiesGrid ==
    [][/\ (completeCount' > completeCount) => AllCellsEmpty(grid')
       /\ (AllCellsEmpty(grid') /\ (AnimationComplete \/ RemovalStep))
              => completeCount' = completeCount + 1
      ]_vars

\* C3 witness: a game of at least two cells was played to an empty grid and
\* the event was emitted.
C3_Witness ==
    /\ rows * columns >= 2
    /\ AllCellsEmpty(grid)
    /\ completeCount = 1

\* C4: every removal step turns exactly two cells from non-Empty to Empty,
\* and the two held the same kind.
C4_RemovalClearsOnePair ==
    [][RemovalStep =>
          /\ Cardinality(ClearedCells) = 2
          /\ \A c \in ClearedCells, d \in ClearedCells : grid[c] = grid[d]
      ]_vars

\* C5: in every reachable state each non-Empty kind occupies an even number
\* of cells.
C5_EveryKindEven == EveryKindEven(grid)

\* C6: right after grid generation (at start and after restartGame) every
\* kind occupies an even number of cells and 2 * floor(rows * columns / 2)
\* cells are non-Empty.
GeneratedAsPairs(g) ==
    /\ EveryKindEven(g)
    /\ Cardinality(NonEmptyCells(g)) = 2 * ((rows * columns) \div 2)

C6_GenerationInPairs ==
    /\ GeneratedAsPairs(grid)
    /\ [][GeneratedAsPairs(grid') \/ ~RestartGame]_vars

\* C6 witness: a grid of three cells regenerated by a restart (a callback of
\* the game before is still held): two tiles and the last cell Empty.
C6_Witness ==
    /\ rows * columns = 3
    /\ pending # <<>> /\ pending[1].stale
    /\ selectedTile = null
    /\ Cardinality(NonEmptyCells(grid)) = 2
    /\ grid[<<rows - 1, columns - 1>>] = EMPTY

\* ------------------------------------------------------------- activations
\* (row, col) names no cell of the grid or names an Empty cell.
InvalidTarget(row, col) ==
    ~(row \in 0 .. rows - 1 /\ col \in 0 .. columns - 1) \/ grid[<<row, col>>] = EMPTY

\* Cell c is activated while a tile that connects with it is armed.
MatchStep(c) ==
    /\ selectedTile # null
    /\ grid[c] # EMPTY
    /\ canConnect(grid, selectedTile, c)
    /\ OnTileSelected(c[1], c[2])

\* The callbacks held for tiles of the current grid.
LivePending == {i \in 1 .. Len(pending) : ~pending[i].stale}

\* C13: activating an out-of-range coordinate or an Empty cell changes neither
\* the selection, nor any cell's kind, nor the pending resolutions, nor the
\* completion signal.
C13_InvalidActivationNoOp ==
    [][\/ UNCHANGED <<selectedTile, grid, pending, completeCount>>
       \/ \A row \in -1 .. rows, col \in -1 .. columns :
              ~(InvalidTarget(row, col) /\ OnTileSelected(row, col))
      ]_vars

\* C13 witness: a tile is armed and a resolution is pending while the grid
\* holds both Empty and occupied cells (an invalid activation has something
\* of each kind to disturb).
C13_Witness ==
    /\ selectedTile # null
    /\ LivePending # {}
    /\ \E c \in Cells : grid[c] = EMPTY
    /\ \E c \in Cells : grid[c] # EMPTY

\* C14: activating a non-Empty cell that connects with the armed tile leaves
\* the selection Idle when the handler returns, removal immediate or deferred.
C14_MatchClearsSelection ==
    [][selectedTile' = null \/ \A c \in Cells : ~MatchStep(c)]_vars

\* C14 witness: the selection is Idle while the callback of the latest match
\* is still held and its two tiles are still on the grid.
C14_Witness ==
    /\ selectedTile = null
    /\ pending # <<>>
    /\ LET held == pending[Len(pending)]
       IN  /\ ~held.stale
           /\ grid[held.tile1] # EMPTY
           /\ canConnect(grid, held.tile1, held.tile2)

\* C15: activating a non-Empty cell that does not connect with the armed tile
\* arms that cell, activating a non-Empty cell while Idle arms it, and neither
\* changes any cell's kind.
C15_MismatchSwitchesIdleArms ==
    [][\A c \in Cells :
          \/ selectedTile' = c /\ grid' = grid
          \/ ~(/\ grid[c] # EMPTY
               /\ selectedTile = null \/ ~canConnect(grid, selectedTile, c)
               /\ OnTileSelected(c[1], c[2]))
      ]_vars

\* C15 witness: a tile is armed and another tile that does not connect with
\* it is on the grid (the selection can have moved from that one).
C15_Witness ==
    /\ selectedTile # null
    /\ grid[selectedTile] # EMPTY
    /\ \E a \in Cells :
           /\ a # selectedTile
           /\ grid[a] \notin {EMPTY, grid[selectedTile]}
           /\ ~canConnect(grid, a, selectedTile)

\* C16: activating the armed cell leaves it armed, changes no cell's kind and
\* starts no resolution.
C16_ReactivationKeepsArmed ==
    [][\A c \in Cells :
          (selectedTile = c /\ OnTileSelected(c[1], c[2]))
              => (/\ selectedTile' = c
                  /\ grid' = grid
                  /\ pending' = pending
                  /\ completeCount' = completeCount)
      ]_vars

\* C16 witness: the armed tile is on the grid, nothing is pending and a tile
\* it connects with exists (a match is possible, but not with itself).
C16_Witness ==
    /\ selectedTile # null
    /\ grid[selectedTile] # EMPTY
    /\ pending = <<>>
    /\ \E b \in Cells : canConnect(grid, selectedTile, b)

\* C17: in every reachable state at most one resolution is pending.
C17_AtMostOnePending == Cardinality(LivePending) <= 1

\* C18: with a path animator that holds the callback, a match changes no
\* cell's kind and the callback, when it fires, clears both matched cells and
\* runs the completion check; with no animator (or one that runs the callback
\* before drawPath returns) both cells are Empty and the completion check has
\* run when the handler returns.
PairCleared(a, b) == grid' = [grid EXCEPT ![a] = EMPTY, ![b] = EMPTY]

CompletionChecked ==
    completeCount' = IF AllCellsEmpty(grid') THEN completeCount + 1 ELSE completeCount

C18_RemovalDeferredToCallback ==
    [][/\ \A c \in Cells :
              MatchStep(c) =>
                  IF pathVisualizer = "loaded"
                  THEN /\ grid' = grid
                       /\ completeCount' = completeCount
                       /\ pending' = Append(pending,
                              [tile1 |-> selectedTile, tile2 |-> c, stale |-> FALSE])
                  ELSE /\ PairCleared(selectedTile, c)
                       /\ CompletionChecked
                       /\ pending' = pending
       /\ (pending # <<>> /\ ~Head(pending).stale /\ AnimationComplete) =>
              /\ PairCleared(Head(pending).tile1, Head(pending).tile2)
              /\ CompletionChecked
      ]_vars

\* C18 witness: with an animator that holds callbacks, a grid of four cells
\* has been emptied and the completion check has signalled it.
C18_Witness ==
    /\ pathVisualizer = "loaded"
    /\ rows * columns = 4
    /\ AllCellsEmpty(grid)
    /\ pending = <<>>
    /\ completeCount >= 1

\* ----------------------------------------------------------------- shuffle
RowMajorIndex(c) == c[1] * columns + c[2]

\* C19: after shuffleRemainingTiles on a grid with k non-Empty cells, exactly
\* the first k cells in row-major order are non-Empty.
C19_ShuffleCompacts ==
    [][\/ LET k == Cardinality(NonEmptyCells(grid))
          IN  \A c \in Cells : (grid'[c] # EMPTY) <=> (RowMajorIndex(c) < k)
       \/ ~ShuffleRemainingTiles
      ]_vars

\* C19 witness: a grid of two rows holds tiles in its first two cells only,
\* and a held callback names a tile of the second row (tiles stood there when
\* the match was made).
C19_Witness ==
    /\ rows = 2 /\ columns = 2
    /\ NonEmptyCells(grid) = {<<0, 0>>, <<0, 1>>}
    /\ \E i \in LivePending : pending[i].tile1[1] = 1 \/ pending[i].tile2[1] = 1

\* C20: shuffleRemainingTiles leaves the number of cells of every kind, and so
\* the number of non-Empty cells, unchanged.
C20_ShufflePreservesKinds ==
    [][\/ /\ \A kind \in 1 .. pokemonTypesCount :
                 Cardinality(CellsOfKind(grid', kind)) = Cardinality(CellsOfKind(grid, kind))
          /\ Cardinality(NonEmptyCells(grid')) = Cardinality(NonEmptyCells(grid))
       \/ ~ShuffleRemainingTiles
      ]_vars

\* C20 witness: a held callback names two tiles that were matched as one kind
\* and now hold two different kinds (only a shuffle moves kinds between
\* cells), and every kind still has the two tiles it was generated with.
C20_Witness ==
    /\ \E i \in LivePending :
           /\ grid[pending[i].tile1] # EMPTY
           /\ grid[pending[i].tile2] # EMPTY
           /\ grid[pending[i].tile1] # grid[pending[i].tile2]
    /\ \A kind \in 1 .. pokemonTypesCount : Cardinality(CellsOfKind(grid, kind)) = 2

\* ------------------------------------------------------------- valid moves
MovesAnswered == query # null

\* C21: hasValidMoves() is true exactly when some pair of distinct non-Empty
\* cells satisfies canConnect, and the call changes neither a cell's kind nor
\* the selection nor the pending resolutions.
C21_ValidMovesIffSomePairConnects ==
    [][HasValidMoves =>
          /\ query'.moves <=>
                 \E a \in NonEmptyCells(grid), b \in NonEmptyCells(grid) :
                     a # b /\ canConnect(grid, a, b)
          /\ UNCHANGED <<grid, selectedTile, pending>>
      ]_vars

\* C21 witness: hasValidMoves() was true on a grid whose only connectable
\* pair is not the first two tiles in row-major order, while a tile was
\* selected.
C21_Witness ==
    /\ MovesAnswered /\ query.moves
    /\ selectedTile # null
    /\ Cardinality(NonEmptyCells(grid)) >= 3
    /\ \A a \in NonEmptyCells(grid), b \in NonEmptyCells(grid) :
           canConnect(grid, a, b) => (a[1] > 0 /\ b[1] > 0)

\* C22: grids whose only tiles are two tiles a, b of one kind and a full row
\* r of other tiles between them, and the same with one cell of row r cleared.
\* RowKindsOk(kinds of the row's tiles, in column order) says which rows count.
BlockedPair(g, a, b, r) ==
    /\ a[1] < r /\ r < b[1]
    /\ g[a] # EMPTY /\ g[a] = g[b]
    /\ \A c \in Cells : (c \notin {a, b} /\ c[1] # r) => g[c] = EMPTY

RowTiles(g, r) == {c \in Cells : c[1] = r /\ g[c] # EMPTY}

\* The tiles of row r are all of one kind, which is not the kind of a.
RowOfOneOtherKind(g, a, r) ==
    \A c \in RowTiles(g, r), d \in RowTiles(g, r) : g[c] = g[d] /\ g[c] # g[a]

\* The tiles of row r are of pairwise different kinds, none the kind of a.
RowOfDistinctOtherKinds(g, a, r) ==
    \A c \in RowTiles(g, r), d \in RowTiles(g, r) :
        g[c] # g[a] /\ (c # d => g[c] # g[d])

\* C22 as stated: with a full row of one other kind between the two tiles
\* hasValidMoves() is false, and with one tile of that row cleared it is true.
C22_BlockingRowDeadlock ==
    MovesAnswered =>
        \A a \in Cells, b \in Cells, r \in 0 .. rows - 1 :
            (BlockedPair(grid, a, b, r) /\ RowOfOneOtherKind(grid, a, r)) =>
                /\ Cardinality(RowTiles(grid, r)) = columns => ~query.moves
                /\ Cardinality(RowTiles(grid, r)) = columns - 1 => query.moves

\* C22 amended: the same for a blocking row whose tiles are of pairwise
\* different kinds, none of them the kind of the two tiles.
C22_DistinctBlockingRowDeadlock ==
    MovesAnswered =>
        \A a \in Cells, b \in Cells, r \in 0 .. rows - 1 :
            (BlockedPair(grid, a, b, r) /\ RowOfDistinctOtherKinds(grid, a, r)) =>
                /\ Cardinality(RowTiles(grid, r)) = columns => ~query.moves
                /\ Cardinality(RowTiles(grid, r)) = columns - 1 => query.moves

\* C22 witness: hasValidMoves() was false on a grid of two columns with a
\* full row of two different kinds between two tiles of a third kind.
C22_Witness ==
    /\ MovesAnswered /\ ~query.moves
    /\ columns = 2
    /\ \E a \in Cells, b \in Cells, r \in 0 .. rows - 1 :
           /\ BlockedPair(grid, a, b, r)
           /\ RowOfDistinctOtherKinds(grid, a, r)
           /\ Cardinality(RowTiles(grid, r)) = 2

\* ---------------------------------------------------- restart and generation
\* C23: restartGame, in any state, leaves the selection Idle, the
\* configuration as it was, a grid that satisfies the generation properties,
\* and no completion counted for the new game.
C23_RestartStartsFreshGame ==
    [][\/ /\ selectedTile' = null
          /\ completeCount' = 0
          /\ UNCHANGED <<rows, columns, pokemonTypesCount>>
          /\ GeneratedAsPairs(grid')
       \/ ~RestartGame
      ]_vars

\* C23 witness: a freshly generated grid of four tiles, nothing selected and
\* no completion counted, with the callbacks of two resolutions of the game
\* before still held.
C23_Witness ==
    /\ Len(pending) = 2 /\ pending[1].stale /\ pending[2].stale
    /\ selectedTile = null
    /\ completeCount = 0
    /\ Cardinality(NonEmptyCells(grid)) = 4

\* C24: a configuration with rows * columns < 2 or no kind creates no grid.
C24_InvalidConfigurationCreatesNoGrid ==
    (rows * columns < 2 \/ pokemonTypesCount < 1) => DOMAIN grid = {}

\* C25: every activation that starts a resolution (hands a pair to the
\* animator or removes it at once) does so for the armed cell and the
\* activated cell, which are distinct, both non-Empty, of one kind and joined
\* by a path of at most three segments.
C25_ResolutionOnlyForConnectablePair ==
    [][\/ grid' = grid /\ pending' = pending
       \/ \A c \in Cells :
              \/ ~OnTileSelected(c[1], c[2])
              \/ /\ selectedTile # null
                 /\ selectedTile # c
                 /\ grid[c] # EMPTY
                 /\ grid[selectedTile] = grid[c]
                 /\ PathWithinTwoBends(grid, selectedTile, c)
      ]_vars

\* C25 witness: two resolutions for two disjoint pairs are pending, the second
\* started while the first was still held.
C25_Witness ==
    /\ Len(pending) = 2
    /\ ~pending[1].stale /\ ~pending[2].stale
    /\ {pending[1].tile1, pending[1].tile2} \cap {pending[2].tile1, pending[2].tile2} = {}
    /\ \A c \in Cells : grid[c] # EMPTY

\* C26: after generation, kind k of 1..pokemonTypesCount occupies twice as many
\* cells as there are pair indices i < floor(rows * columns / 2) with
\* (i mod pokemonTypesCount) + 1 = k, no other kind occurs, and an Empty cell
\* exists only when rows * columns is odd and is then the last cell.
PairIndicesOfKind(kind) ==
    {i \in 0 .. ((rows * columns) \div 2) - 1 : (i % pokemonTypesCount) + 1 = kind}

GeneratedFromConfiguration(g) ==
    /\ \A c \in Cells : g[c] \in 0 .. pokemonTypesCount
    /\ \A kind \in 1 .. pokemonTypesCount :
           Cardinality(CellsOfKind(g, kind)) = 2 * Cardinality(PairIndicesOfKind(kind))
    /\ \A c \in Cells :
           g[c] = EMPTY => ((rows * columns) % 2 = 1 /\ c = <<rows - 1, columns - 1>>)

C26_KindsFixedByConfiguration ==
    /\ GeneratedFromConfiguration(grid)
    /\ [][GeneratedFromConfiguration(grid') \/ ~RestartGame]_vars

\* C26 witness: a configuration of one kind and four cells regenerated by a
\* restart: the second pair wraps around to the first kind.
C26_Witness ==
    /\ rows * columns = 4
    /\ pokemonTypesCount = 1
    /\ pending # <<>> /\ pending[Len(pending)].stale
    /\ \A c \in Cells : grid[c] = PIKACHU

\* C29: whenever a cell is armed, it is a cell of the grid and is non-Empty.
C29_ArmedCellNonEmpty ==
    selectedTile # null => (selectedTile \in Cells /\ grid[selectedTile] # EMPTY)

\* C30: on a grid of at least two cells, the callback of a resolution started
\* before restartGame changes no cell of the new grid, leaves the selection
\* as it is and emits no game-complete event.
C30_StaleCallbackHarmless ==
    [][\/ /\ grid' = grid
          /\ selectedTile' = selectedTile
          /\ completeCount' = completeCount
       \/ rows * columns < 2
       \/ ~(pending # <<>> /\ Head(pending).stale /\ AnimationComplete)
      ]_vars

\* C30 witness: the callback of the game before is the next to fire while, in
\* the new game, a tile is armed and a resolution is pending behind it.
C30_Witness ==
    /\ Len(pending) = 2
    /\ pending[1].stale /\ ~pending[2].stale
    /\ selectedTile # null
    /\ rows * columns >= 2

\* ---------------------------------------------------------------- deadlock
\* C27: a removal never leaves a non-empty grid in which no two tiles connect
\* (the grid is shuffled by the removal itself when that happens).
C27_NoDeadlockAfterRemoval ==
    [][RemovalStep => (AllCellsEmpty(grid') \/ hasValidMoves(grid'))]_vars

\* ------------------------------------------------- resolutions run to an end
Coordinates == (0 .. MaxRows - 1) \X (0 .. MaxCols - 1)

\* The callback of a resolution for the tiles a and b is held.
ResolutionPending(a, b) ==
    \E i \in LivePending : pending[i].tile1 = a /\ pending[i].tile2 = b

BothEmpty(a, b) ==
    a \in Cells /\ b \in Cells /\ grid[a] = EMPTY /\ grid[b] = EMPTY

\* C28: when every tween completes and restartGame is not called, every
\* pending resolution is followed by a state in which both of its cells are
\* Empty; and with an animator that holds the callbacks, tiles leave cells
\* only when a callback fires (or a shuffle moves them).
C28_ResolutionCompletes ==
    /\ \A a \in Coordinates, b \in Coordinates :
           ResolutionPending(a, b) ~> BothEmpty(a, b)
    /\ [][\/ ClearedCells = {}
          \/ pathVisualizer # "loaded"
          \/ AnimationComplete
          \/ ShuffleRemainingTiles
         ]_vars

\* C28 witness: with an animator that holds callbacks, two cells of a grid of
\* four tiles are Empty, two tiles are left and no callback is held any more.
C28_Witness ==
    /\ pathVisualizer = "loaded"
    /\ rows * columns = 4
    /\ Cardinality(NonEmptyCells(grid)) = 2
    /\ pending = <<>>
    /\ completeCount = 0

\* ------------------------------------------------ monotone in emptiness
\* The grid g with the cell c cleared.
ClearedAt(g, c) == [g EXCEPT ![c] = EMPTY]

\* The cells other than the two queried ones.
OtherCells == Cells \ {query.tile1, query.tile2}

\* C31: if canConnect(A,B) is true in a grid, it is still true in the grid
\* obtained by clearing any one cell other than A and B to Empty.
C31_ConnectivityMonotoneInEmptiness ==
    (Answered /\ query.can) =>
        \A c \in OtherCells :
            canConnect(ClearedAt(grid, c), query.tile1, query.tile2)

\* C31 witness: two connectable tiles, and a third tile whose clearing opens
\* a path that the search finds before the one it returned.
C31_Witness ==
    /\ Answered /\ query.can
    /\ grid[query.tile1] # EMPTY
    /\ \E c \in OtherCells :
           /\ grid[c] # EMPTY
           /\ getConnectionPath(ClearedAt(grid, c), query.tile1, query.tile2)
                  # query.path

\* ------------------------------------------------- GameManager's state
\* C32: the state is COMPLETED exactly when the game-complete callback has
\* been received since the last restart, the complete panel is visible exactly
\* when the state is COMPLETED, in the COMPLETED state every cell of the
\* current grid is Empty, and the state is never PAUSED.
C32_CompletedIffCallbackReceived ==
    /\ (currentState = COMPLETED) <=> (completeCount > 0)
    /\ gameCompletePanel <=> (currentState = COMPLETED)
    /\ (currentState = COMPLETED) => AllCellsEmpty(grid)
    /\ currentState # PAUSED

\* C32 witness: a game of four tiles is completed and its panel is shown.
C32_Witness ==
    /\ currentState = COMPLETED
    /\ gameCompletePanel
    /\ rows * columns = 4
    /\ AllCellsEmpty(grid)

====
